---------------------------- MODULE Spec2Model ----------------------------
(***************************************************************************)
(* A model of bad-roll: the integer utilities (integer.rs), the residue    *)
(* ring (modular.rs) and the three protocols built on it                   *)
(* (diffie_hellman.rs, elgamal.rs, rsa.rs).                                *)
(*                                                                         *)
(* The program computes in u128 and i128.  The model keeps the integer     *)
(* width as the parameter Bits == 2 * HalfBits and is checked at a width   *)
(* TLC's own integers can hold; every edge of the program (a product that  *)
(* passes 2^Bits, a cast that passes 2^(Bits-1), the most negative signed  *)
(* value) sits at the same place relative to the width.                    *)
(*                                                                         *)
(* Arithmetic that passes the width panics in a build with overflow checks *)
(* (cargo's dev profile) and wraps in a build without them (cargo's        *)
(* release profile); overflow_checks is the build the run was made with.   *)
(* Division or remainder by zero, and MIN / -1, panic in both.  Every       *)
(* function whose arithmetic can pass the width takes the build as its     *)
(* first parameter, oc.                                                    *)
(***************************************************************************)
EXTENDS Integers, Sequences, FiniteSets

VARIABLES
    overflow_checks,  \* TRUE: arithmetic overflow panics; FALSE: it wraps
    call,             \* the function called, its arguments, what it produced
    pr,               \* Residue::primitive_root: the search for a generator
    dh,               \* a Diffie-Hellman exchange
    eg,               \* an ElGamal session
    rsa               \* an RSA session

vars == <<overflow_checks, call, pr, dh, eg, rsa>>

---------------------------------------------------------------------------
(* Bounds of the model *)

HalfBits == 3
MaxOperand == 12
MaxExponent == 9
MaxMixedModulus == 5
MaxModulus == 11
MaxSecret == 3
MaxMessageLen == 2
MaxUnit == 1
MaxPrimeRSA == 11

---------------------------------------------------------------------------
(* Fixed-width integers *)

RECURSIVE Two(_)
Two(k) == IF k = 0 THEN 1 ELSE 2 * Two(k - 1)

Bits == 2 * HalfBits
UMAX == Two(Bits) - 1
IMAX == Two(Bits - 1) - 1
IMIN == -Two(Bits - 1)

UInt == 0..UMAX
SInt == IMIN..IMAX

\* n as u128 / n as i128: a cast keeps the low Bits bits
AsUnsigned(n) == n % Two(Bits)
AsSigned(n) ==
    LET m == n % Two(Bits) IN IF m > IMAX THEN m - Two(Bits) ELSE m

\* What a call produces: a value, a panic, or no return at all
Ok(x) == [st |-> "ok", val |-> x]
Panic == [st |-> "panic", val |-> <<>>]
Diverges == [st |-> "diverges", val |-> <<>>]
NotCalled == [st |-> "none", val |-> <<>>]
IsOk(r) == r.st = "ok"

\* Unsigned +, -, * : `steps` are the exact values of the operations in the
\* order the code performs them, the last one being the result.
UArith(oc, steps) ==
    IF oc /\ \E i \in 1..Len(steps) : steps[i] \notin UInt
    THEN Panic
    ELSE Ok(AsUnsigned(steps[Len(steps)]))

\* Signed +, -, * and unary minus, likewise
SArith(oc, steps) ==
    IF oc /\ \E i \in 1..Len(steps) : steps[i] \notin SInt
    THEN Panic
    ELSE Ok(AsSigned(steps[Len(steps)]))

Abs(n) == IF n < 0 THEN -n ELSE n

\* i128 / and % truncate toward zero; both panic on a zero divisor and on
\* MIN / -1
TruncDiv(a, b) ==
    LET q == Abs(a) \div Abs(b) IN IF (a < 0) = (b < 0) THEN q ELSE -q
TruncRem(a, b) == a - b * TruncDiv(a, b)
SDiv(a, b) ==
    IF b = 0 \/ (a = IMIN /\ b = -1) THEN Panic ELSE Ok(TruncDiv(a, b))
SRem(a, b) ==
    IF b = 0 \/ (a = IMIN /\ b = -1) THEN Panic ELSE Ok(TruncRem(a, b))

\* u128::rem_euclid
URemEuclid(n, m) == IF m = 0 THEN Panic ELSE Ok(n % m)

\* i128::rem_euclid: r = self % rhs, and r + |rhs| when r is negative
SRemEuclid(n, m) ==
    LET r == SRem(n, m) IN
    IF ~IsOk(r) THEN Panic
    ELSE IF r.val < 0 THEN Ok(r.val + Abs(m)) ELSE r

\* u128::pow
RECURSIVE Power(_, _)
Power(b, e) == IF e = 0 THEN 1 ELSE b * Power(b, e - 1)
UPowSteps(b, e) == [k \in 1..e |-> Power(b, k)]
UPow(oc, b, e) == IF e = 0 THEN Ok(1) ELSE UArith(oc, UPowSteps(b, e))

---------------------------------------------------------------------------
(* integer.rs *)

\* is_prime's loop, i = 5, 11, 17, ...: what its round k does.
\*     while i.pow(2) <= n {
\*         if n % i == 0 || n % (i + 2) == 0 { return false; }
\*         i += 6; }
\* i has come through k additions of 6, each of which panicked or wrapped.
is_prime_round(oc, n, k) ==
    LET i == AsUnsigned(5 + 6 * k)
        sq == UArith(oc, <<i * i>>)
        j == UArith(oc, <<i + 2>>)
        next == UArith(oc, <<i + 6>>)
    IN  IF ~IsOk(sq) THEN "panic"
        ELSE IF sq.val > n THEN "true"
        ELSE IF n % i = 0 THEN "false"
        ELSE IF ~IsOk(j) \/ j.val = 0 THEN "panic"
        ELSE IF n % j.val = 0 THEN "false"
        ELSE IF ~IsOk(next) THEN "panic"
        ELSE "again"

\* The loop ends in its first round that does not go round again; i takes
\* at most 2^(Bits-1) values before it repeats.
is_prime_loop(oc, n) ==
    LET ending == {k \in 0..Two(Bits - 1) : is_prime_round(oc, n, k) # "again"}
        first == CHOOSE k \in ending : \A m \in ending : k <= m
        how == is_prime_round(oc, n, first)
    IN  IF ending = {} THEN Diverges
        ELSE IF how = "panic" THEN Panic
        ELSE Ok(how = "true")

is_prime(oc, n) ==
    IF n = 0 \/ n = 1 \/ (n > 2 /\ n % 2 = 0) \/ (n > 3 /\ n % 3 = 0)
    THEN Ok(FALSE)
    ELSE is_prime_loop(oc, n)

\* gcd's loop, entered with (a, b): r = a % b; a = b; b = r; leave with a
\* when b == 0
RECURSIVE gcd_loop(_, _)
gcd_loop(a, b) ==
    IF b = 0 THEN Panic
    ELSE LET r == a % b IN IF r = 0 THEN Ok(b) ELSE gcd_loop(b, r)

gcd(x, y) == IF x >= y THEN gcd_loop(x, y) ELSE gcd_loop(y, x)

\* gcd_with_coefficients' loop over (u, g, a, b)
RECURSIVE gcd_with_coefficients_loop(_, _, _, _, _, _, _)
gcd_with_coefficients_loop(oc, x, y, u, g, a, b) ==
    IF b = 0
    THEN LET m == AsSigned(x) * u
             n == SArith(oc, <<m, g - AsSigned(m)>>)
         IN
         IF ~IsOk(n) THEN Panic
         ELSE LET v == SDiv(n.val, AsSigned(y)) IN
              IF ~IsOk(v) THEN Panic
              ELSE Ok(<<AsUnsigned(g), u, v.val>>)
    ELSE LET q == SDiv(g, b)
             t == SRem(g, b)
         IN  IF ~IsOk(q) \/ ~IsOk(t) THEN Panic
             ELSE LET s == SArith(oc, <<q.val * a,
                                        u - AsSigned(q.val * a)>>) IN
                  IF ~IsOk(s) THEN Panic
                  ELSE gcd_with_coefficients_loop(
                           oc, x, y, a, b, s.val, t.val)

gcd_with_coefficients(oc, x, y) ==
    gcd_with_coefficients_loop(oc, x, y, 1, AsSigned(x), 0, AsSigned(y))

\* isqrt: d starts at the second-to-top bit and drops below n two bits at a
\* time
RECURSIVE isqrt_start(_, _)
isqrt_start(n, d) == IF d > n THEN isqrt_start(n, d \div 4) ELSE d

RECURSIVE isqrt_loop(_, _, _)
isqrt_loop(x, c, d) ==
    IF d = 0 THEN c
    ELSE IF x >= c + d
         THEN isqrt_loop(x - (c + d), (c \div 2) + d, d \div 4)
         ELSE isqrt_loop(x, c \div 2, d \div 4)

isqrt(n) == isqrt_loop(n, 0, isqrt_start(n, Two(Bits - 2)))

\* The inner loop as an `if`: i is divided out once
divide_out_once(n, i, e) == IF n % i = 0 THEN <<n \div i, e + 1>> ELSE <<n, e>>

\* prime_factorize's inner loop: while n % i == 0 { e += 1; n /= i; }
RECURSIVE divide_out(_, _, _)
divide_out(n, i, e) ==
    IF n % i = 0 THEN divide_out(n \div i, i, e + 1) ELSE <<n, e>>

\* prime_factorize's outer loop: for i in 2..(isqrt(n) + 1), the bound taken
\* from the n the function was called with
RECURSIVE prime_factorize_loop(_, _, _, _)
prime_factorize_loop(n, i, last, found) ==
    IF i > last
    THEN IF n > 1 THEN Append(found, <<n, 1>>) ELSE found
    ELSE LET d == divide_out(n, i, 0) IN
         prime_factorize_loop(
             d[1], i + 1, last,
             IF d[2] > 0 THEN Append(found, <<i, d[2]>>) ELSE found)

prime_factorize(n) ==
    IF n = 0 THEN Panic
    ELSE Ok(prime_factorize_loop(n, 2, isqrt(n), <<>>))

\* euler_totient's loop over the factors: n /= p.pow(e); phi -= phi / p
RECURSIVE euler_totient_loop(_, _, _, _, _)
euler_totient_loop(oc, factors, k, n, phi) ==
    IF k > Len(factors) THEN Ok(phi)
    ELSE LET pe == UPow(oc, factors[k][1], factors[k][2]) IN
         IF ~IsOk(pe) \/ pe.val = 0 THEN Panic
         ELSE LET p == factors[k][1] IN
              euler_totient_loop(
                  oc, factors, k + 1, n \div pe.val, phi - phi \div p)

euler_totient(oc, n) ==
    LET f == prime_factorize(n) IN
    IF ~IsOk(f) THEN Panic ELSE euler_totient_loop(oc, f.val, 1, n, n)

---------------------------------------------------------------------------
(* modular.rs *)

Residue(value, modulus) == [value |-> value, modulus |-> modulus]

from_unsigned_integer(n, modulus) ==
    LET r == URemEuclid(n, modulus) IN
    IF ~IsOk(r) THEN Panic ELSE Ok(Residue(r.val, modulus))

from_signed_integer(n, modulus) ==
    LET r == SRemEuclid(n, AsSigned(modulus)) IN
    IF ~IsOk(r) THEN Panic ELSE Ok(Residue(AsUnsigned(r.val), modulus))

assert_valid(self) == self.value < self.modulus

plus(oc, self, other) ==
    IF ~assert_valid(self) \/ ~assert_valid(other) THEN Panic
    ELSE IF self.modulus # other.modulus THEN Panic
    ELSE LET s == UArith(oc, <<self.value + other.value>>) IN
         IF ~IsOk(s) THEN Panic ELSE from_unsigned_integer(s.val, self.modulus)

times(oc, self, other) ==
    IF ~assert_valid(self) \/ ~assert_valid(other) THEN Panic
    ELSE IF self.modulus # other.modulus THEN Panic
    ELSE LET s == UArith(oc, <<self.value * other.value>>) IN
         IF ~IsOk(s) THEN Panic ELSE from_unsigned_integer(s.val, self.modulus)

scalar_times(oc, self, scalar) ==
    IF ~assert_valid(self) THEN Panic
    ELSE LET s == SArith(oc, <<scalar * AsSigned(self.value)>>) IN
         IF ~IsOk(s) THEN Panic ELSE from_signed_integer(s.val, self.modulus)

neg(oc, self) ==
    IF ~assert_valid(self) THEN Panic ELSE scalar_times(oc, self, -1)

inv(oc, self) ==
    IF ~assert_valid(self) THEN Panic
    ELSE LET c == gcd_with_coefficients(oc, self.value, self.modulus) IN
         IF ~IsOk(c) THEN Panic
         ELSE IF c.val[1] = 1 THEN from_signed_integer(c.val[2], self.modulus)
         ELSE Panic

\* pow's loop: while e > 0 { if e % 2 == 1 { b = b.times(&a) }
\*                           a = a.times(&a); e /= 2 }
RECURSIVE pow_loop(_, _, _, _)
pow_loop(oc, a, b, e) ==
    IF e = 0 THEN Ok(b)
    ELSE LET b1 == IF e % 2 = 1 THEN times(oc, b, a) ELSE Ok(b)
             a1 == times(oc, a, a)
         IN  IF ~IsOk(b1) \/ ~IsOk(a1) THEN Panic
             ELSE pow_loop(oc, a1.val, b1.val, e \div 2)

\* pow's branch for e < 0 when -e is again negative (e == MIN in a build
\* without overflow checks): self.inv().pow(e) calls itself on every
\* inverse in turn, and returns only if some inv panics
RECURSIVE pow_of_min(_, _, _)
pow_of_min(oc, self, seen) ==
    IF ~assert_valid(self) THEN Panic
    ELSE IF self \in seen THEN Diverges
    ELSE LET i == inv(oc, self) IN
         IF ~IsOk(i) THEN Panic ELSE pow_of_min(oc, i.val, seen \cup {self})

pow(oc, self, e) ==
    IF ~assert_valid(self) THEN Panic
    ELSE IF e < 0
    THEN LET i == inv(oc, self)
             n == SArith(oc, <<-e>>)
         IN  IF ~IsOk(i) \/ ~IsOk(n) THEN Panic
             ELSE IF n.val < 0 THEN pow_of_min(oc, i.val, {self})
             ELSE IF ~assert_valid(i.val) THEN Panic
             ELSE LET one == from_unsigned_integer(1, self.modulus) IN
                  pow_loop(oc, i.val, one.val, n.val)
    ELSE LET one == from_unsigned_integer(1, self.modulus) IN
         pow_loop(oc, self, one.val, e)

\* primitive_root, before its loop: the modulus, phi, and the prime divisors
\* of phi
primitive_root_setup(oc, modulus) ==
    LET prime == is_prime(oc, modulus) IN
    IF ~IsOk(prime) \/ ~prime.val THEN Panic
    ELSE LET phi == euler_totient(oc, modulus) IN
         IF ~IsOk(phi) THEN Panic
         ELSE LET f == prime_factorize(phi.val) IN
              IF ~IsOk(f) THEN Panic
              ELSE Ok([modulus |-> modulus, phi |-> phi.val,
                       primes |-> [k \in 1..Len(f.val) |-> f.val[k][1]]])

\* primitive_root's inner loop on the candidate n: "continue" on the first
\* prime p with n.pow(phi / p) == one, "return" when there is none
RECURSIVE primitive_root_test(_, _, _, _)
primitive_root_test(oc, s, n, k) ==
    IF k > Len(s.primes) THEN Ok("return")
    ELSE LET x == pow(oc, n, AsSigned(s.phi \div s.primes[k])) IN
         IF ~IsOk(x) THEN x
         ELSE IF x.val = Residue(1 % s.modulus, s.modulus) THEN Ok("continue")
         ELSE primitive_root_test(oc, s, n, k + 1)

---------------------------------------------------------------------------
(* The inputs the calls are made with *)

\* Unsigned operands: the small ones, and the ones next to the edges of the
\* signed and unsigned ranges
UOperands ==
    {n \in UInt : n <= MaxOperand \/ (n >= IMAX - 1 /\ n <= IMAX + 2)
                  \/ n >= UMAX - 1}

SOperands ==
    {n \in SInt : Abs(n) <= MaxOperand \/ n <= IMIN + 1 \/ n >= IMAX - 1}

Exponents ==
    {e \in SInt : Abs(e) <= MaxExponent \/ e <= IMIN + 1 \/ e = IMAX}

\* The Residues that satisfy assert_valid
Residues ==
    {Residue(v, m) : <<v, m>> \in {x \in UOperands \X UOperands : x[1] < x[2]}}

\* The pairs plus and times are called with: of one modulus, or of two small
\* ones
Operable(a, b) ==
    \/ a.modulus = b.modulus
    \/ (a.modulus <= MaxMixedModulus /\ b.modulus <= MaxMixedModulus)

NoCall == [fn |-> "none", args |-> <<>>, ret |-> NotCalled]

Init ==
    /\ overflow_checks \in BOOLEAN
    /\ call = NoCall
    /\ pr = [st |-> "idle", setup |-> <<>>, drawn |-> <<>>]
    /\ dh = [st |-> "idle"]
    /\ eg = [st |-> "idle"]
    /\ rsa = [st |-> "idle"]

\* No call has been made yet
Fresh == call.fn = "none"

\* One call of a function: its arguments and what it produced
Call(fn, args, result) ==
    /\ call' = [fn |-> fn, args |-> args, ret |-> result]
    /\ UNCHANGED <<overflow_checks, pr, dh, eg, rsa>>

---------------------------------------------------------------------------
(* Calls of integer.rs *)

is_prime_call ==
    /\ Fresh
    /\ \E oc \in {overflow_checks}, n \in UInt :
        Call("is_prime", <<n>>, is_prime(oc, n))

gcd_call ==
    /\ Fresh
    /\ \E x \in UOperands, y \in UOperands : Call("gcd", <<x, y>>, gcd(x, y))

gcd_with_coefficients_call ==
    /\ Fresh
    /\ \E oc \in {overflow_checks}, x \in UOperands, y \in UOperands :
        Call("gcd_with_coefficients", <<x, y>>,
             gcd_with_coefficients(oc, x, y))

isqrt_call ==
    /\ Fresh
    /\ \E n \in UInt : Call("isqrt", <<n>>, Ok(isqrt(n)))

prime_factorize_call ==
    /\ Fresh
    /\ \E n \in UInt : Call("prime_factorize", <<n>>, prime_factorize(n))

euler_totient_call ==
    /\ Fresh
    /\ \E oc \in {overflow_checks}, n \in UInt :
        Call("euler_totient", <<n>>, euler_totient(oc, n))

NextInteger ==
    \/ is_prime_call
    \/ gcd_call
    \/ gcd_with_coefficients_call
    \/ isqrt_call
    \/ prime_factorize_call
    \/ euler_totient_call

SpecInteger == Init /\ [][NextInteger]_vars

---------------------------------------------------------------------------
(* Calls of modular.rs *)

from_unsigned_integer_call ==
    /\ Fresh
    /\ \E n \in UOperands, modulus \in UOperands :
        Call("from_unsigned_integer", <<n, modulus>>,
             from_unsigned_integer(n, modulus))

from_signed_integer_call ==
    /\ Fresh
    /\ \E n \in SOperands, modulus \in UOperands :
        Call("from_signed_integer", <<n, modulus>>,
             from_signed_integer(n, modulus))

plus_call ==
    /\ Fresh
    /\ \E oc \in {overflow_checks}, a \in Residues, b \in Residues :
        /\ Operable(a, b)
        /\ Call("plus", <<a, b>>, plus(oc, a, b))

times_call ==
    /\ Fresh
    /\ \E oc \in {overflow_checks}, a \in Residues, b \in Residues :
        /\ Operable(a, b)
        /\ Call("times", <<a, b>>, times(oc, a, b))

scalar_times_call ==
    /\ Fresh
    /\ \E oc \in {overflow_checks}, a \in Residues, c \in SOperands :
        Call("scalar_times", <<a, c>>, scalar_times(oc, a, c))

neg_call ==
    /\ Fresh
    /\ \E oc \in {overflow_checks}, a \in Residues :
        Call("neg", <<a>>, neg(oc, a))

inv_call ==
    /\ Fresh
    /\ \E oc \in {overflow_checks}, a \in Residues :
        Call("inv", <<a>>, inv(oc, a))

pow_call ==
    /\ Fresh
    /\ \E oc \in {overflow_checks}, a \in Residues, e \in Exponents :
        Call("pow", <<a, e>>, pow(oc, a, e))

\* a.pow(m).pow(n), for m and n whose product is an exponent too
pow_pow_call ==
    /\ Fresh
    /\ \E oc \in {overflow_checks}, a \in Residues,
          m \in 0..MaxExponent, n \in 0..MaxExponent :
        /\ m * n \in SInt
        /\ \E x \in {pow(oc, a, m)} :
               Call("pow_pow", <<a, m, n>>,
                    IF IsOk(x) THEN pow(oc, x.val, n) ELSE x)

\* a.times(a.inv())
times_inv_call ==
    /\ Fresh
    /\ \E oc \in {overflow_checks}, a \in Residues :
        \E i \in {inv(oc, a)} :
            Call("times_inv", <<a>>,
                 IF IsOk(i) THEN times(oc, a, i.val) ELSE i)

\* primitive_root, up to its loop
PrimitiveRootEnter(moduli) ==
    /\ pr.st = "idle"
    /\ \E oc \in {overflow_checks}, modulus \in moduli :
           \E s \in {primitive_root_setup(oc, modulus)} :
           pr' = [st |-> IF IsOk(s) THEN "entered" ELSE "refused",
                  setup |-> IF IsOk(s) THEN s.val ELSE <<modulus>>,
                  drawn |-> <<>>]

\* One round of primitive_root's loop: draw a candidate in 1..modulus and
\* test it; the search goes on, returns the candidate, or panics
PrimitiveRootDraw ==
    /\ pr.st \in {"entered", "searching"}
    /\ \E oc \in {overflow_checks}, s \in {pr.setup} :
           \E c \in 1..(s.modulus - 1) :
           \E n \in {Residue(c % s.modulus, s.modulus)} :
           \E t \in {primitive_root_test(oc, s, n, 1)} :
               pr' = [pr EXCEPT
                         !.drawn = n,
                         !.st = IF ~IsOk(t) THEN "panicked"
                                ELSE IF t.val = "return" THEN "returned"
                                ELSE "searching"]

primitive_root_call ==
    /\ Fresh
    /\ PrimitiveRootEnter(UInt)
    /\ call' = [fn |-> "primitive_root", args |-> <<>>, ret |-> NotCalled]
    /\ UNCHANGED <<overflow_checks, dh, eg, rsa>>

primitive_root_draw ==
    /\ call.fn = "primitive_root"
    /\ PrimitiveRootDraw
    /\ UNCHANGED <<overflow_checks, call, dh, eg, rsa>>

NextResidue ==
    \/ from_unsigned_integer_call
    \/ from_signed_integer_call
    \/ plus_call
    \/ times_call
    \/ scalar_times_call
    \/ neg_call
    \/ inv_call
    \/ pow_call
    \/ pow_pow_call
    \/ times_inv_call
    \/ primitive_root_call
    \/ primitive_root_draw

SpecResidue == Init /\ [][NextResidue]_vars

---------------------------------------------------------------------------
(* diffie_hellman.rs *)

\* The moduli choose_base is called with
Moduli == 0..MaxModulus

\* The private secrets rng.gen() produces: the small ones and the ends of
\* the signed range
Secrets == {x \in SInt : Abs(x) <= MaxSecret \/ x <= IMIN + 1 \/ x = IMAX}

generate_secret_and_shared_value(oc, base, private_secret) ==
    [private_secret |-> private_secret,
     shared_value |-> pow(oc, base, private_secret)]

compute_shared_secret(oc, private_secret, other_shared_value) ==
    pow(oc, other_shared_value, private_secret)

\* choose_base: Residue::primitive_root, up to its loop
dh_choose_base ==
    /\ Fresh
    /\ PrimitiveRootEnter(Moduli)
    /\ call' = [fn |-> "diffie_hellman", args |-> <<>>, ret |-> NotCalled]
    /\ dh' = [st |-> "choose_base"]
    /\ UNCHANGED <<overflow_checks, eg, rsa>>

\* choose_base: one round of Residue::primitive_root's loop
dh_choose_base_draw ==
    /\ dh.st = "choose_base"
    /\ PrimitiveRootDraw
    /\ UNCHANGED <<overflow_checks, call, dh, eg, rsa>>

\* The first party, then the second, draws its secret and computes the
\* value it sends
dh_generate_secret_and_shared_value ==
    /\ dh.st \in {"choose_base", "first"}
    /\ pr.st = "returned"
    /\ \E oc \in {overflow_checks}, base \in {pr.drawn},
          private_secret \in Secrets :
           \E party \in {generate_secret_and_shared_value(
                             oc, base, private_secret)} :
           dh' = [st |-> IF ~IsOk(party.shared_value) THEN "aborted"
                         ELSE IF dh.st = "first" THEN "second" ELSE "first",
                  parties |-> IF dh.st = "first"
                              THEN Append(dh.parties, party) ELSE <<party>>]
    /\ UNCHANGED <<overflow_checks, call, pr, eg, rsa>>

\* Each party computes the shared secret from its own secret and the value
\* the other one sent
dh_compute_shared_secret ==
    /\ dh.st = "second"
    /\ \E oc \in {overflow_checks}, a \in {dh.parties[1]},
          b \in {dh.parties[2]} :
           \E x \in {compute_shared_secret(oc, a.private_secret,
                                           b.shared_value.val)},
              y \in {compute_shared_secret(oc, b.private_secret,
                                           a.shared_value.val)} :
           dh' = [st |-> "computed",
                  parties |-> dh.parties,
                  shared_secrets |-> <<x, y>>]
    /\ UNCHANGED <<overflow_checks, call, pr, eg, rsa>>

NextDiffieHellman ==
    \/ dh_choose_base
    \/ dh_choose_base_draw
    \/ dh_generate_secret_and_shared_value
    \/ dh_compute_shared_secret

SpecDiffieHellman == Init /\ [][NextDiffieHellman]_vars

---------------------------------------------------------------------------
(* elgamal.rs and rsa.rs *)

\* rng.gen_range(1..min(bound as i128, i128::MAX)): the values it can
\* return; gen_range panics when there is none
ExponentRange(bound) ==
    LET top == IF AsSigned(bound) < IMAX THEN AsSigned(bound) ELSE IMAX
    IN  1..(top - 1)

\* The units of the messages: the small ones, and the ones at the modulus
MessageUnits(modulus) ==
    {u \in 0..modulus : u <= MaxUnit \/ u >= modulus - 1}

Messages(modulus) ==
    UNION {[1..len -> MessageUnits(modulus)] : len \in 0..MaxMessageLen}

elgamal_generate_key_pair(oc, base, private_key) ==
    [private_key |-> private_key, public_key |-> pow(oc, base, private_key)]

\* The asserts encrypt makes before it draws random_element
elgamal_encrypt_asserts(base, message, public_key) ==
    /\ base.modulus = public_key.modulus
    /\ \A k \in 1..Len(message) : message[k] < base.modulus

\* The operations of modular.rs on what an earlier step produced: the
\* earlier step's panic, or the operation on its value
InvOf(oc, x) == IF ~IsOk(x) THEN x ELSE inv(oc, x.val)
PowOf(oc, x, e) == IF ~IsOk(x) THEN x ELSE pow(oc, x.val, e)
TimesOf(oc, x, y) ==
    IF ~IsOk(x) THEN x ELSE IF ~IsOk(y) THEN y ELSE times(oc, x.val, y.val)
ValueOf(x) == IF ~IsOk(x) THEN x ELSE Ok(x.val.value)
PairOf(x, y) ==
    IF ~IsOk(x) THEN x ELSE IF ~IsOk(y) THEN y ELSE Ok(<<x.val, y.val>>)

\* ret.push(x)
Push(ret, x) ==
    IF ~IsOk(ret) THEN ret ELSE IF ~IsOk(x) THEN x
    ELSE Ok(Append(ret.val, x.val))

\* (c1, c2) for one piece
elgamal_encrypt_piece(oc, base, piece, public_key, random_element) ==
    PairOf(pow(oc, base, random_element),
           TimesOf(oc, from_unsigned_integer(piece, base.modulus),
                   pow(oc, public_key, random_element)))

\* encrypt's second loop, from the k-th piece on, ret being what it pushed
RECURSIVE elgamal_encrypt_loop(_, _, _, _, _, _, _)
elgamal_encrypt_loop(oc, base, message, public_key, random_element, k, ret) ==
    IF k > Len(message) \/ ~IsOk(ret) THEN ret
    ELSE elgamal_encrypt_loop(
             oc, base, message, public_key, random_element, k + 1,
             Push(ret, elgamal_encrypt_piece(oc, base, message[k],
                                             public_key, random_element)))

elgamal_encrypt(oc, base, message, public_key, random_element) ==
    elgamal_encrypt_loop(oc, base, message, public_key, random_element,
                         1, Ok(<<>>))

\* piece.0.pow(private_key).inv().times(&piece.1).value
elgamal_decrypt_piece(oc, piece, private_key) ==
    ValueOf(TimesOf(oc, InvOf(oc, pow(oc, piece[1], private_key)),
                    Ok(piece[2])))

RECURSIVE elgamal_decrypt_loop(_, _, _, _, _)
elgamal_decrypt_loop(oc, ciphertext, private_key, k, ret) ==
    IF k > Len(ciphertext) \/ ~IsOk(ret) THEN ret
    ELSE elgamal_decrypt_loop(
             oc, ciphertext, private_key, k + 1,
             Push(ret, elgamal_decrypt_piece(oc, ciphertext[k],
                                             private_key)))

elgamal_decrypt(oc, ciphertext, private_key) ==
    elgamal_decrypt_loop(oc, ciphertext, private_key, 1, Ok(<<>>))

eg_choose_base ==
    /\ Fresh
    /\ PrimitiveRootEnter(Moduli)
    /\ call' = [fn |-> "elgamal", args |-> <<>>, ret |-> NotCalled]
    /\ eg' = [st |-> "choose_base"]
    /\ UNCHANGED <<overflow_checks, dh, rsa>>

eg_choose_base_draw ==
    /\ eg.st = "choose_base"
    /\ PrimitiveRootDraw
    /\ UNCHANGED <<overflow_checks, call, dh, eg, rsa>>

eg_generate_key_pair ==
    /\ eg.st = "choose_base"
    /\ pr.st = "returned"
    /\ IF ExponentRange(pr.drawn.modulus) = {}
       THEN eg' = [st |-> "no_key"]
       ELSE \E oc \in {overflow_checks}, base \in {pr.drawn},
               private_key \in ExponentRange(pr.drawn.modulus) :
                \E keys \in {elgamal_generate_key_pair(
                                 oc, base, private_key)} :
                eg' = [st |-> IF IsOk(keys.public_key)
                              THEN "key_pair" ELSE "no_public_key",
                       keys |-> keys]
    /\ UNCHANGED <<overflow_checks, call, pr, dh, rsa>>

eg_encrypt ==
    /\ eg.st = "key_pair"
    /\ \E oc \in {overflow_checks}, base \in {pr.drawn},
          public_key \in {eg.keys.public_key.val} :
       \E message \in Messages(base.modulus) :
           IF ~elgamal_encrypt_asserts(base, message, public_key)
           THEN eg' = [st |-> "refused", keys |-> eg.keys,
                       message |-> message]
           ELSE \E random_element \in ExponentRange(base.modulus) :
                    \E c \in {elgamal_encrypt(oc, base, message, public_key,
                                              random_element)} :
                    eg' = [st |-> IF IsOk(c) THEN "encrypted"
                                  ELSE "not_encrypted",
                           keys |-> eg.keys,
                           message |-> message,
                           random_element |-> random_element,
                           ciphertext |-> c]
    /\ UNCHANGED <<overflow_checks, call, pr, dh, rsa>>

eg_decrypt ==
    /\ eg.st = "encrypted"
    /\ \E oc \in {overflow_checks}, c \in {eg.ciphertext.val},
          private_key \in {eg.keys.private_key} :
           \E d \in {elgamal_decrypt(oc, c, private_key)} :
           eg' = [st |-> "decrypted",
                  keys |-> eg.keys,
                  message |-> eg.message,
                  random_element |-> eg.random_element,
                  ciphertext |-> eg.ciphertext,
                  decrypted |-> d]
    /\ UNCHANGED <<overflow_checks, call, pr, dh, rsa>>

NextElGamal ==
    \/ eg_choose_base
    \/ eg_choose_base_draw
    \/ eg_generate_key_pair
    \/ eg_encrypt
    \/ eg_decrypt

SpecElGamal == Init /\ [][NextElGamal]_vars

\* The primes generate_public_key is called with
Primes == {x \in 2..MaxPrimeRSA : \A d \in 2..(x - 1) : x % d # 0}

\* (p - 1) * (q - 1)
rsa_totient(oc, p, q) == UArith(oc, <<p - 1, q - 1, (p - 1) * (q - 1)>>)

\* What generate_public_key's loop does once gcd(e, modulus) is known:
\* Ok(<<>>) when the loop goes on, Ok((N, e)) when it returns
rsa_public_key(e, g, N) ==
    IF ~IsOk(g) THEN g
    ELSE IF g.val # 1 THEN Ok(<<>>)
    ELSE IF ~IsOk(N) THEN N ELSE Ok(<<N.val, e>>)

\* One round of generate_public_key's loop with the candidate c
rsa_generate_public_key_round(oc, p, q, modulus, c) ==
    rsa_public_key(AsUnsigned(c), gcd(AsUnsigned(c), modulus),
                   UArith(oc, <<p * q>>))

\* Residue::from_unsigned_integer(piece, public_key.0)
\*     .pow(public_key.1 as i128)
rsa_encrypt_piece(oc, piece, public_key) ==
    PowOf(oc, from_unsigned_integer(piece, public_key[1]),
          AsSigned(public_key[2]))

RECURSIVE rsa_encrypt_loop(_, _, _, _, _)
rsa_encrypt_loop(oc, message, public_key, k, ret) ==
    IF k > Len(message) \/ ~IsOk(ret) THEN ret
    ELSE rsa_encrypt_loop(
             oc, message, public_key, k + 1,
             Push(ret, rsa_encrypt_piece(oc, message[k], public_key)))

rsa_encrypt(oc, message, public_key) ==
    rsa_encrypt_loop(oc, message, public_key, 1, Ok(<<>>))

\* d: Residue::from_unsigned_integer(e, (p - 1) * (q - 1)).inv().value
rsa_private_exponent_of(oc, e, modulus) ==
    IF ~IsOk(modulus) THEN modulus
    ELSE ValueOf(InvOf(oc, from_unsigned_integer(e, modulus.val)))

rsa_private_exponent(oc, p, q, e) ==
    rsa_private_exponent_of(oc, e, rsa_totient(oc, p, q))

RECURSIVE rsa_decrypt_loop(_, _, _, _, _)
rsa_decrypt_loop(oc, ciphertext, d, k, ret) ==
    IF k > Len(ciphertext) \/ ~IsOk(ret) THEN ret
    ELSE rsa_decrypt_loop(
             oc, ciphertext, d, k + 1,
             Push(ret, ValueOf(pow(oc, ciphertext[k], AsSigned(d)))))

\* decrypt, d and modulus = p * q being computed
rsa_decrypt_with(oc, ciphertext, d, modulus) ==
    IF ~IsOk(d) THEN d
    ELSE IF ~IsOk(modulus) THEN modulus
    ELSE rsa_decrypt_loop(oc, ciphertext, d.val, 1, Ok(<<>>))

rsa_decrypt(oc, p, q, ciphertext, e) ==
    rsa_decrypt_with(oc, ciphertext, rsa_private_exponent(oc, p, q, e),
                     UArith(oc, <<p * q>>))

\* generate_public_key, up to its loop
rsa_generate_public_key ==
    /\ Fresh
    /\ call' = [fn |-> "rsa", args |-> <<>>, ret |-> NotCalled]
    /\ \E oc \in {overflow_checks}, p \in Primes, q \in Primes :
           \E t \in {rsa_totient(oc, p, q)} :
           rsa' = [st |-> IF IsOk(t) THEN "generate_public_key"
                          ELSE "no_totient",
                   secret_primes |-> <<p, q>>,
                   totient |-> t]
    /\ UNCHANGED <<overflow_checks, pr, dh, eg>>

\* One round of generate_public_key's loop
rsa_generate_public_key_draw ==
    /\ rsa.st \in {"generate_public_key", "rejected"}
    /\ IF ExponentRange(rsa.totient.val) = {}
       THEN rsa' = [st |-> "no_exponent",
                    secret_primes |-> rsa.secret_primes,
                    totient |-> rsa.totient]
       ELSE \E oc \in {overflow_checks}, primes \in {rsa.secret_primes},
               modulus \in {rsa.totient.val} :
            \E c \in ExponentRange(modulus) :
                \E r \in {rsa_generate_public_key_round(
                              oc, primes[1], primes[2], modulus, c)} :
                rsa' = [st |-> IF ~IsOk(r) THEN "no_public_key"
                               ELSE IF r.val = <<>> THEN "rejected"
                               ELSE "public_key",
                        secret_primes |-> rsa.secret_primes,
                        totient |-> rsa.totient,
                        candidate |-> c,
                        public_key |-> r]
    /\ UNCHANGED <<overflow_checks, call, pr, dh, eg>>

rsa_encrypt_call ==
    /\ rsa.st = "public_key"
    /\ \E oc \in {overflow_checks}, public_key \in {rsa.public_key.val} :
       \E message \in Messages(public_key[1]) :
           \E c \in {rsa_encrypt(oc, message, public_key)} :
           rsa' = [st |-> IF IsOk(c) THEN "encrypted" ELSE "not_encrypted",
                   secret_primes |-> rsa.secret_primes,
                   public_key |-> rsa.public_key,
                   message |-> message,
                   ciphertext |-> c]
    /\ UNCHANGED <<overflow_checks, call, pr, dh, eg>>

rsa_decrypt_call ==
    /\ rsa.st = "encrypted"
    /\ \E oc \in {overflow_checks}, primes \in {rsa.secret_primes},
          c \in {rsa.ciphertext.val}, e \in {rsa.public_key.val[2]} :
           \E d \in {rsa_decrypt(oc, primes[1], primes[2], c, e)} :
           rsa' = [st |-> "decrypted",
                   secret_primes |-> rsa.secret_primes,
                   public_key |-> rsa.public_key,
                   message |-> rsa.message,
                   ciphertext |-> rsa.ciphertext,
                   decrypted |-> d]
    /\ UNCHANGED <<overflow_checks, call, pr, dh, eg>>

NextRSA ==
    \/ rsa_generate_public_key
    \/ rsa_generate_public_key_draw
    \/ rsa_encrypt_call
    \/ rsa_decrypt_call

SpecRSA == Init /\ [][NextRSA]_vars

---------------------------------------------------------------------------
(* The operations that have preconditions *)

NextPreconditions ==
    \/ plus_call
    \/ times_call
    \/ inv_call
    \/ primitive_root_call
    \/ primitive_root_draw
    \/ prime_factorize_call

SpecPreconditions == Init /\ [][NextPreconditions]_vars

---------------------------------------------------------------------------
(* The program: one run makes one call, or one search for a primitive     *)
(* root, or one session of one protocol                                   *)

Next ==
    \/ NextInteger
    \/ NextResidue
    \/ NextDiffieHellman
    \/ NextElGamal
    \/ NextRSA

Spec == Init /\ [][Next]_vars

---------------------------------------------------------------------------
(* What the claims are stated in: the integers themselves *)

Divides(d, n) == \E k \in 0..n : d * k = n

\* The greatest common divisor of x and y, from its definition
GreatestCommonDivisor(x, y) ==
    IF x = 0 /\ y = 0 THEN 0
    ELSE CHOOSE d \in 1..(IF x > y THEN x ELSE y) :
             /\ Divides(d, x)
             /\ Divides(d, y)
             /\ \A c \in 1..(IF x > y THEN x ELSE y) :
                    Divides(c, x) /\ Divides(c, y) => c <= d

IsPrimeNumber(n) == n >= 2 /\ \A d \in 2..(n - 1) : n % d # 0

\* The product of p^e over a sequence of <<p, e>>
RECURSIVE ProductOfPowers(_)
ProductOfPowers(f) ==
    IF f = <<>> THEN 1 ELSE Power(f[1][1], f[1][2]) * ProductOfPowers(Tail(f))

---------------------------------------------------------------------------
(* Claims about integer.rs, checked under SpecInteger *)

\* C1: for all unsigned x and y, zero included, gcd_with_coefficients(x, y)
\* returns a triple (g, u, v) with g the greatest common divisor of x and y
\* and u*x + v*y = g; it does not fail when an argument is 0.
C1_BezoutTriple ==
    call.fn = "gcd_with_coefficients" =>
        /\ IsOk(call.ret)
        /\ call.ret.val[1] = GreatestCommonDivisor(call.args[1], call.args[2])
        /\ call.ret.val[2] * call.args[1] + call.ret.val[3] * call.args[2]
               = call.ret.val[1]

\* C6: for all unsigned x and y, gcd(x, y) returns the greatest common
\* divisor of x and y, whatever the order of the arguments, and gcd(x, 0) = x.
C6_Gcd ==
    call.fn = "gcd" =>
        /\ IsOk(call.ret)
        /\ call.ret.val = GreatestCommonDivisor(call.args[1], call.args[2])
        /\ call.ret = gcd(call.args[2], call.args[1])
        /\ call.args[2] = 0 => call.ret.val = call.args[1]

\* C7: for every n >= 1, prime_factorize(n) returns pairs (p, e) in strictly
\* increasing order of p, every p prime and every e >= 1, whose product of
\* p^e is n; the sequence is empty for n = 1.
C7_PrimeFactorization ==
    call.fn = "prime_factorize" /\ call.args[1] >= 1 =>
        /\ IsOk(call.ret)
        /\ \A k \in 1..Len(call.ret.val) :
               /\ IsPrimeNumber(call.ret.val[k][1])
               /\ call.ret.val[k][2] >= 1
               /\ k > 1 => call.ret.val[k - 1][1] < call.ret.val[k][1]
        /\ ProductOfPowers(call.ret.val) = call.args[1]
        /\ call.args[1] = 1 => call.ret.val = <<>>

\* prime_factorize has returned three primes, the first of them squared
C7_Witness ==
    /\ call.fn = "prime_factorize"
    /\ IsOk(call.ret)
    /\ Len(call.ret.val) = 3
    /\ call.ret.val[1][2] >= 2

---------------------------------------------------------------------------
(* Claims about modular.rs, checked under SpecResidue *)

\* The residue of the product of e copies of b, modulo m
RECURSIVE PowerMod(_, _, _)
PowerMod(b, e, m) == IF e = 0 THEN 1 % m ELSE (b * PowerMod(b, e - 1, m)) % m

IsUnit(a) == GreatestCommonDivisor(a.value, a.modulus) = 1

\* C2: for every Residue a whose value is a unit, a.inv() returns a Residue
\* of the same modulus and a.times(a.inv()) is from_unsigned_integer(1,
\* modulus).
C2_InverseLaw ==
    /\ call.fn = "inv" /\ IsUnit(call.args[1]) =>
           IsOk(call.ret) /\ call.ret.val.modulus = call.args[1].modulus
    /\ call.fn = "times_inv" /\ IsUnit(call.args[1]) =>
           call.ret = from_unsigned_integer(1, call.args[1].modulus)

\* C3: for every Residue a and every e >= 0, a.pow(e) is the residue of the
\* product of e copies of a.value; so a.pow(0) is from_unsigned_integer(1,
\* modulus) and a.pow(m).pow(n) = a.pow(m*n) for all m, n >= 0.
C3_Pow ==
    /\ call.fn = "pow" /\ call.args[2] >= 0 =>
           /\ IsOk(call.ret)
           /\ call.ret.val =
                  Residue(PowerMod(call.args[1].value, call.args[2],
                                   call.args[1].modulus),
                          call.args[1].modulus)
           /\ call.args[2] = 0 =>
                  call.ret = from_unsigned_integer(1, call.args[1].modulus)
    /\ call.fn = "pow_pow" =>
           /\ IsOk(call.ret)
           /\ call.ret = pow(overflow_checks, call.args[1],
                            call.args[2] * call.args[3])

\* C4: for every prime p, whatever candidates are drawn, a value returned by
\* primitive_root(p) generates the units mod p: none of root^1, ...,
\* root^(p-2) is 1 mod p.
C4_PrimitiveRoot ==
    pr.st = "returned" /\ IsPrimeNumber(pr.setup.modulus) =>
        \A k \in 1..(pr.setup.modulus - 2) :
            PowerMod(pr.drawn.value, k, pr.setup.modulus) # 1

\* C5: for every modulus > 0, from_unsigned_integer(n, modulus) and
\* from_signed_integer(n, modulus), n negative included, return a Residue
\* whose value is in 0..modulus-1 and is the Euclidean remainder of n.
C5_Reduction ==
    call.fn \in {"from_unsigned_integer", "from_signed_integer"}
    /\ call.args[2] > 0 =>
        /\ IsOk(call.ret)
        /\ call.ret.val.modulus = call.args[2]
        /\ call.ret.val.value \in 0..(call.args[2] - 1)
        /\ call.ret.val.value = call.args[1] % call.args[2]

---------------------------------------------------------------------------
(* Claims about the protocols *)

\* C8: Diffie-Hellman agreement.  For every prime modulus, every base
\* choose_base returns and every two private secrets of the full signed
\* range, both parties' values are computed and
\* compute_shared_secret(a, base.pow(b)) = compute_shared_secret(b,
\* base.pow(a)).  Checked under SpecDiffieHellman.
C8_Agreement ==
    pr.st = "returned" /\ IsPrimeNumber(pr.setup.modulus) =>
        /\ dh.st # "aborted"
        /\ dh.st = "computed" =>
               /\ IsOk(dh.shared_secrets[1])
               /\ dh.shared_secrets[1] = dh.shared_secrets[2]

\* C9: ElGamal round trip.  For every prime modulus, base from choose_base,
\* key pair from generate_key_pair, ephemeral exponent drawn by encrypt and
\* message of units below the modulus, encrypt returns a ciphertext and
\* decrypt returns the message.  Checked under SpecElGamal.
C9_ElGamalRoundTrip ==
    pr.st = "returned" /\ IsPrimeNumber(pr.setup.modulus) =>
        /\ eg.st # "not_encrypted"
        /\ eg.st = "refused" =>
               \E k \in 1..Len(eg.message) :
                   eg.message[k] >= pr.setup.modulus
        /\ eg.st = "decrypted" => eg.decrypted = Ok(eg.message)

\* C10: RSA round trip.  For any primes p and q, any public key (N, e)
\* generate_public_key returns and every message of units below N = p*q,
\* encrypt returns a ciphertext and decrypt returns the message.  Checked
\* under SpecRSA.
C10_RSARoundTrip ==
    rsa.st \in {"not_encrypted", "decrypted"}
    /\ (\A k \in 1..Len(rsa.message) :
            rsa.message[k] < rsa.secret_primes[1] * rsa.secret_primes[2]) =>
        /\ rsa.st = "decrypted"
        /\ rsa.decrypted = Ok(rsa.message)

---------------------------------------------------------------------------
(* Claims about the preconditions, checked under SpecPreconditions *)

\* C11: each of these violations aborts the operation, which returns no
\* value: plus or times on Residues of unequal moduli, inv on a Residue
\* whose value is not coprime to its modulus, primitive_root on a modulus
\* that is not prime (its loop is never entered), and prime_factorize(0).
C11_PreconditionsAbort ==
    /\ call.fn \in {"plus", "times"}
       /\ call.args[1].modulus # call.args[2].modulus
           => call.ret = Panic
    /\ call.fn = "inv" /\ ~IsUnit(call.args[1]) => call.ret = Panic
    /\ call.fn = "prime_factorize" /\ call.args[1] = 0 => call.ret = Panic
    /\ pr.st = "refused" \/ pr.st = "idle"
       \/ IsPrimeNumber(pr.setup.modulus)

---------------------------------------------------------------------------
(* Claims about scalar_times and negative exponents, checked under        *)
(* SpecResidue                                                            *)

\* C12: for every valid Residue a and every scalar c of the signed width,
\* a.scalar_times(c) keeps its intermediate product inside the signed
\* range (it does not panic on overflow) and returns the Euclidean residue
\* of c * a.value modulo a.modulus.  Stated for the moduli that
\* from_signed_integer reduces by as they are (those of the signed range),
\* which is where scalar_times alone decides it.
C12_ScalarTimes ==
    call.fn = "scalar_times" /\ call.args[1].modulus <= IMAX =>
        /\ IsOk(call.ret)
        /\ call.ret.val =
               Residue((call.args[2] * call.args[1].value)
                           % call.args[1].modulus,
                       call.args[1].modulus)

\* The inverse of the unit a: the x below the modulus with x * a = 1
Inverse(a) ==
    CHOOSE x \in 0..(a.modulus - 1) : (x * a.value) % a.modulus = 1 % a.modulus

\* C13: for every unit a and every negative exponent e of the signed width,
\* the most negative one included, a.pow(e) terminates and returns
\* a.inv().pow(-e), the residue of the product of -e copies of the
\* inverse of a; a.pow(-1) is a.inv().
C13_NegativeExponent ==
    call.fn = "pow" /\ call.args[2] < 0 /\ IsUnit(call.args[1]) =>
        /\ IsOk(call.ret)
        /\ call.ret.val =
               Residue(PowerMod(Inverse(call.args[1]), -call.args[2],
                                call.args[1].modulus),
                       call.args[1].modulus)
        /\ call.args[2] = -1 =>
               call.ret = inv(overflow_checks, call.args[1])

===========================================================================
